---- MODULE Spec2Model ----
(***************************************************************************)
(* Model of image_builds/opensearch/agent.py: the discovery loop (main),   *)
(* the per-container log followers (stream_logs), the container listing    *)
(* (list_containers) and the sink (send_log); and of the scan cycle of      *)
(* image_builds/dtrack/agent.py (main_loop, wait_for_bom).                 *)
(*                                                                         *)
(* Container ids, names and messages are sequences of one-character        *)
(* strings, so that slices such as cid[:12] are computed; a string the     *)
(* code only passes on is a string.  A raw log line is a sequence of bytes: *)
(* a one-character string is an ASCII byte, "0xFF" is a byte that is not   *)
(* valid UTF-8.  None and the empty string are both the empty sequence     *)
(* (the code only tests them for truthiness).                              *)
(***************************************************************************)
EXTENDS Integers, Sequences, FiniteSets, TLC

VARIABLES
    AGENT_MODE,         \* "opensearch" or "local" (agent.py:20)
    opensearch_client,  \* "client" or "None" (agent.py:36-47)
    pc,                 \* position of main: "list" (before the first list call), "start" (in
                        \* the for loop), "sleep" (in time.sleep), "crashed" (an exception left it)
    containers,         \* dict returned by list_containers, as a sequence of <<cid, name>>
    todo,               \* items of containers the for loop of main has not visited yet
    active_streams,     \* set of container ids (agent.py:148)
    threads,            \* dict cid -> Thread, as a sequence of <<cid, handle>> (agent.py:149)
    workers,            \* handle -> Thread running stream_logs (alive or still referenced)
    resp,               \* kind of the runtime's response to the list call of the current cycle
    scenario,           \* while the run is a prefix of ScenarioPolls and no worker has ended:
                        \* the number of workers started in each cycle so far; else Off
    started,            \* ids for which the for loop of the current cycle started a worker
    keysAtList,         \* active_streams as it was when the current cycle called list_containers
    reaped,             \* <<cid, zero>> for every id the last sweep removed; zero: its worker's
                        \* stream had opened and closed without a line
                        \* (started and keysAtList are emptied when the for loop is left)
    TZ,                 \* the host's offset from UTC in hours (what time.localtime applies)
    clock,              \* the time of day in UTC, [y, mo, d, h], that time.strftime reads
    body,               \* under SpecList: the JSON body the runtime answers the list call with
    sbom                \* the SBOM agent (dtrack/agent.py): where main_loop is and its locals

vars == <<AGENT_MODE, opensearch_client, pc, containers, todo, active_streams,
          threads, workers, resp, scenario, started,
          keysAtList, reaped, TZ, clock, body, sbom>>

supVars == <<pc, containers, todo, active_streams, threads, resp,
             started, keysAtList, reaped>>

\* what no step of main or of a worker changes
cfgVars == <<AGENT_MODE, opensearch_client, TZ, clock, body, sbom>>

-----------------------------------------------------------------------------
(* Bounds of the model *)

MaxContainers == 2    \* container objects in one list response
SupLines == 1         \* lines each worker reads from its stream under Spec
MaxLines == 3         \* lines the worker reads from its stream under SpecWorker
SinkLines == 2        \* lines the worker reads from its stream under SpecSink

-----------------------------------------------------------------------------
(* Strings *)

None == << >>
abc123 == <<"a", "b", "c", "1", "2", "3">>
def456 == <<"d", "e", "f", "4", "5", "6">>
web == <<"/", "w", "e", "b">>
web2 == <<"/", "w", "e", "b", "2">>
db == <<"/", "d", "b">>
unknown == <<"u", "n", "k", "n", "o", "w", "n">>
NODE_NAME == "podman-node"
IdLabelLen == 12

Truthy(v) == v # << >>

\* Python's "a or b"
Or(a, b) == IF Truthy(a) THEN a ELSE b

\* Python's s[:n]
Prefix(s, n) == SubSeq(s, 1, IF Len(s) < n THEN Len(s) ELSE n)

-----------------------------------------------------------------------------
(* Dicts with insertion order, as sequences of <<key, value>> *)

Keys(d) == {d[i][1] : i \in 1..Len(d)}

DictGet(d, k) == d[CHOOSE i \in 1..Len(d) : d[i][1] = k][2]

\* d[k] = v
DictSet(d, k, v) ==
    IF k \in Keys(d)
    THEN [i \in 1..Len(d) |-> IF d[i][1] = k THEN <<k, v>> ELSE d[i]]
    ELSE Append(d, <<k, v>>)

DictKeep(d, k) == d

\* d.pop(k, None)
DictPop(d, k) == SelectSeq(d, LAMBDA kv : kv[1] # k)

PopNone(d, ks) == d

\* "for k in ks: d.pop(k, None)"
RECURSIVE PopAll(_, _)
PopAll(d, ks) == IF ks = << >> THEN d ELSE PopAll(DictPop(d, Head(ks)), Tail(ks))

Range(s) == {s[i] : i \in 1..Len(s)}

-----------------------------------------------------------------------------
(* The runtime's answers to GET .../containers/json *)

\* a JSON object with the keys in ks; a key that is absent reads as None
Obj(ks, id, ID, names) == [t |-> "obj", keys |-> ks, Id |-> id, ID |-> ID, Names |-> names]
NumItem == [t |-> "num", keys |-> {}, Id |-> None, ID |-> None, Names |-> << >>]

ContainerObjs ==
    { Obj({"Id", "Names"}, abc123, None, <<web>>),
      Obj({"Id", "Names"}, def456, None, <<db>>),
      Obj({"ID", "Names"}, None, abc123, <<web2>>) }

SeqsUpTo(S, n) == UNION {[1..k -> S] : k \in 0..n}

\* bodies that parse as JSON: an array of container objects, an array with
\* a number in it, null, a number, or an object with nkeys keys
Bodies ==
    {[t |-> "arr", items |-> a, nkeys |-> 0] : a \in SeqsUpTo(ContainerObjs, MaxContainers)}
    \cup {[t |-> "arr", items |-> <<NumItem>>, nkeys |-> 0],
          [t |-> "null", items |-> << >>, nkeys |-> 0],
          [t |-> "num", items |-> << >>, nkeys |-> 0],
          [t |-> "obj", items |-> << >>, nkeys |-> 1],
          [t |-> "obj", items |-> << >>, nkeys |-> 0]}

FailureKinds == {"conn_error", "http_error", "bad_json"}

Responses ==
    {[kind |-> k, body |-> [t |-> "null", items |-> << >>, nkeys |-> 0]] : k \in FailureKinds}
    \cup {[kind |-> "json", body |-> b] : b \in Bodies}

\* c.get(k)
Get(c, k) == IF k \in c.keys THEN c[k] ELSE None

\* the loop "for c in containers" of list_containers; an element that is
\* not a JSON object has no get() and the loop raises
RECURSIVE ListLoop(_, _)
ListLoop(items, out) ==
    IF items = << >> THEN [raised |-> FALSE, out |-> out]
    ELSE LET c == Head(items) IN
         IF c.t # "obj" THEN [raised |-> TRUE, out |-> << >>]
         ELSE LET cid == Or(Get(c, "Id"), Get(c, "ID"))
                  names == Or(Get(c, "Names"), << >>)
                  name == IF Truthy(names) THEN names[1]
                          ELSE IF Truthy(cid) THEN Prefix(cid, IdLabelLen)
                          ELSE unknown
              IN ListLoop(Tail(items),
                          IF Truthy(cid) THEN DictSet(out, cid, name) ELSE out)

CaughtTransportOnly(kind) == kind = "conn_error"

\* "except Exception" around session.get, raise_for_status and r.json():
\* is a failure of this kind caught?
Caught(kind) == kind \in FailureKinds

\* list_containers(): [raised |-> an exception leaves the function, out |-> the dict]
list_containers(r) ==
    IF r.kind \in FailureKinds THEN [raised |-> ~Caught(r.kind), out |-> << >>]
    ELSE IF r.body.t = "arr" THEN ListLoop(r.body.items, << >>)
    ELSE IF r.body.t = "obj"
         THEN \* iterating a JSON object yields its keys, which are strings
              [raised |-> r.body.nkeys > 0, out |-> << >>]
    ELSE \* null or a number: not iterable
         [raised |-> TRUE, out |-> << >>]

-----------------------------------------------------------------------------
(* time.strftime('%Y.%m.%d') *)

Digits == <<"0", "1", "2", "3", "4", "5", "6", "7", "8", "9">>
Digit(n) == Digits[n + 1]
Pad2(n) == <<Digit(n \div 10), Digit(n % 10)>>
Pad4(n) == <<Digit(n \div 1000), Digit((n \div 100) % 10), Digit((n \div 10) % 10), Digit(n % 10)>>

LeapYear(y) == (y % 4 = 0 /\ y % 100 # 0) \/ y % 400 = 0
DaysInMonth(y, m) ==
    IF m = 2 THEN (IF LeapYear(y) THEN 28 + 1 ELSE 28)
    ELSE IF m \in {4, 6, 9, 11} THEN 30 ELSE 30 + 1

NextDay(t) ==
    IF t.d < DaysInMonth(t.y, t.mo) THEN [t EXCEPT !.d = @ + 1]
    ELSE IF t.mo < 12 THEN [t EXCEPT !.d = 1, !.mo = @ + 1]
    ELSE [t EXCEPT !.d = 1, !.mo = 1, !.y = @ + 1]

PrevDay(t) ==
    IF t.d > 1 THEN [t EXCEPT !.d = @ - 1]
    ELSE IF t.mo > 1 THEN [t EXCEPT !.d = DaysInMonth(t.y, t.mo - 1), !.mo = @ - 1]
    ELSE [t EXCEPT !.d = DaysInMonth(t.y - 1, 12), !.mo = 12, !.y = @ - 1]

\* time.gmtime(): the UTC time as it is
gmtime(t) == t

\* time.localtime(): the UTC time moved by the host's offset
localtime(t, tz) ==
    IF t.h + tz < 0 THEN [PrevDay(t) EXCEPT !.h = t.h + tz + 24]
    ELSE IF t.h + tz >= 24 THEN [NextDay(t) EXCEPT !.h = t.h + tz - 24]
    ELSE [t EXCEPT !.h = t.h + tz]

\* the format '%Y.%m.%d' applied to a broken-down time
FormatDate(t) == Pad4(t.y) \o <<".">> \o Pad2(t.mo) \o <<".">> \o Pad2(t.d)

\* time.strftime(format) without a time argument formats time.localtime()
strftime(t, tz) == FormatDate(localtime(t, tz))

OPENSEARCH_INDEX_PREFIX == <<"p", "o", "d", "m", "a", "n", "-", "l", "o", "g", "s">>

\* f"{OPENSEARCH_INDEX_PREFIX}-{time.strftime('%Y.%m.%d')}"
index_name == OPENSEARCH_INDEX_PREFIX \o <<"-">> \o strftime(clock, TZ)

-----------------------------------------------------------------------------
(* send_log *)

TruncateAt == 300
Marker == <<".", ".", ".", "[", "t", "r", "u", "n", "c", "a", "t", "e", "d", "]">>

NeedsTruncationFrom(msg) == Len(msg) >= TruncateAt

\* "if len(msg) > 300"
NeedsTruncation(msg) == Len(msg) > TruncateAt

\* doc_print: a copy of doc whose message is cut to 300 characters plus the marker
DocPrint(doc) ==
    IF NeedsTruncation(doc.message)
    THEN [doc EXCEPT !.message = SubSeq(doc.message, 1, TruncateAt) \o Marker]
    ELSE doc

IndexCallsWithRetry(io) == IF io = "raises" THEN 2 ELSE 1

\* the calls of opensearch_client.index that send_log makes for one doc
IndexCalls(io) == 1

\* send_log(doc); io is what the call to the outside (print, or the backend's
\* index) does: "ok" or "raises".  raised: an exception leaves send_log;
\* out: the doc printed or given to index; index: the index written to;
\* calls: the number of calls of opensearch_client.index
send_log(doc, mode, client, io) ==
    IF mode = "local"
    THEN IF io = "raises"
         THEN [raised |-> TRUE, effect |-> "print_failed", out |-> DocPrint(doc),
               index |-> None, calls |-> 0]
         ELSE [raised |-> FALSE, effect |-> "printed", out |-> DocPrint(doc),
               index |-> None, calls |-> 0]
    ELSE IF client = "None"
    THEN [raised |-> FALSE, effect |-> "no_client", out |-> doc, index |-> None, calls |-> 0]
    ELSE IF io = "raises"
         THEN [raised |-> FALSE, effect |-> "index_failed", out |-> doc,
               index |-> index_name, calls |-> IndexCalls(io)]
         ELSE [raised |-> FALSE, effect |-> "indexed", out |-> doc,
               index |-> index_name, calls |-> IndexCalls(io)]

-----------------------------------------------------------------------------
(* The end-to-end run: the runtime lists abc123, then abc123 and def456 *)

ScenarioPolls == << {abc123}, {abc123, def456} >>
Off == [on |-> FALSE, counts |-> << >>]

\* the list call has returned the ids in ids
ScenarioListed(sc, ids) ==
    IF sc.on /\ Len(sc.counts) < Len(ScenarioPolls) /\ ids = ScenarioPolls[Len(sc.counts) + 1]
    THEN [sc EXCEPT !.counts = Append(@, 0)]
    ELSE Off

\* the for loop has started a worker
ScenarioStarted(sc) ==
    IF sc.on THEN [sc EXCEPT !.counts[Len(sc.counts)] = @ + 1] ELSE sc

-----------------------------------------------------------------------------
(* stream_logs *)

InvalidByte == "0xFF"
Replacement == "U+FFFD"

\* the lines a stream may yield: empty, valid UTF-8, with an invalid byte
RawLines == { << >>, <<"h", "i">>, <<"h", InvalidByte>> }
\* the lines a stream yields under Spec
SupRawLines == { <<"h", "i">> }

\* raw_line.decode("utf-8", errors="replace"); with errors="replace" the
\* decoding of bytes does not raise, so the fallback str(raw_line) is not taken
Decode(raw) == [i \in 1..Len(raw) |-> IF raw[i] = InvalidByte THEN Replacement ELSE raw[i]]

\* the doc of stream_logs, without "@timestamp" (the clock when the line is processed)
MakeDoc(line, container_id, name) ==
    [message |-> line, container_id |-> container_id, container_name |-> name,
     node |-> NODE_NAME]

\* a Thread(target=stream_logs, args=(cid, name)) that has just been started.
\* opened: the log stream was opened; lines: the raw lines iter_lines has
\* yielded; sent: the calls of send_log and what each did; listed: main has
\* called list_containers since the thread ended
NewWorker(cid, name) ==
    [cid |-> cid, name |-> name, st |-> "Starting", opened |-> FALSE, lines |-> << >>,
     sent |-> << >>, listed |-> FALSE]

Handles(thr) == {thr[i][2] : i \in 1..Len(thr)}

\* a finished Thread no dict refers to is gone
GC(ws, thr) ==
    LET keep == {h \in DOMAIN ws : ws[h].st # "Ended" \/ h \in Handles(thr)}
    IN [h \in keep |-> ws[h]]

is_alive(h) == workers[h].st # "Ended"

AfterOpenAlwaysStreaming(o) == "Streaming"

\* the state of stream_logs after session.get(url, stream=True) and
\* raise_for_status: o is "ok", "conn_error" or "http_error"
AfterOpen(o) == IF o = "ok" THEN "Streaming" ELSE "Ended"

Open(h) ==
    /\ h \in DOMAIN workers
    /\ workers[h].st = "Starting"
    /\ \E o \in {"ok", "conn_error", "http_error"} :
         /\ workers' = GC([workers EXCEPT ![h].st = AfterOpen(o), ![h].opened = (o = "ok")],
                          threads)
         /\ scenario' = IF o = "ok" THEN scenario ELSE Off
    /\ UNCHANGED <<supVars, cfgVars>>

SkippedNever(raw_line) == FALSE

\* "if not raw_line: continue"
Skipped(raw_line) == ~Truthy(raw_line)

\* one iteration of "for raw_line in r.iter_lines()"
ReadLine(h, cap, raws) ==
    /\ h \in DOMAIN workers
    /\ workers[h].st = "Streaming"
    /\ Len(workers[h].lines) < cap
    /\ \E raw_line \in raws, io \in {"ok", "raises"} :
         LET w == workers[h]
             line == Decode(raw_line)
             doc == MakeDoc(line, w.cid, w.name)
             res == send_log(doc, AGENT_MODE, opensearch_client, io)
         IN IF Skipped(raw_line)
            THEN /\ io = "ok"
                 /\ workers' = [workers EXCEPT ![h].lines = Append(@, raw_line)]
                 /\ UNCHANGED scenario
            ELSE /\ workers' = GC([workers EXCEPT
                                      ![h].lines = Append(@, raw_line),
                                      ![h].sent = Append(@, [doc |-> doc, effect |-> res.effect,
                                                             out |-> res.out,
                                                             index |-> res.index,
                                                             calls |-> res.calls]),
                                      ![h].st = IF res.raised THEN "Ended" ELSE "Streaming"],
                                   threads)
                 /\ scenario' = IF res.raised THEN Off ELSE scenario
    /\ UNCHANGED <<supVars, cfgVars>>

\* iter_lines ends (the runtime closed the stream) or raises
StreamEnd(h) ==
    /\ h \in DOMAIN workers
    /\ workers[h].st = "Streaming"
    /\ \E o \in {"eof", "read_error"} :
         workers' = GC([workers EXCEPT ![h].st = "Ended"], threads)
    /\ scenario' = Off
    /\ UNCHANGED <<supVars, cfgVars>>

-----------------------------------------------------------------------------
(* main *)

\* the handle of a new Thread object for cid
Fresh(ws, cid) ==
    <<cid, CHOOSE k \in 1..(Cardinality(DOMAIN ws) + 1) : <<cid, k>> \notin DOMAIN ws>>

\* a list call begins
MarkListed(ws) ==
    [h \in DOMAIN ws |-> IF ws[h].st = "Ended" THEN [ws[h] EXCEPT !.listed = TRUE] ELSE ws[h]]

\* time.sleep returns (or main has just begun) and
\* containers = list_containers(); an exception that leaves list_containers
\* leaves main as well
ListStep ==
    /\ pc \in {"list", "sleep"}
    /\ \E r \in Responses :
         LET res == list_containers(r) IN
         /\ resp' = r.kind
         /\ IF res.raised
            THEN /\ pc' = "crashed"
                 /\ UNCHANGED <<containers, todo>>
            ELSE /\ pc' = "start"
                 /\ containers' = res.out
                 /\ todo' = res.out
         /\ scenario' = IF res.raised THEN Off ELSE ScenarioListed(scenario, Keys(res.out))
    /\ started' = {}
    /\ keysAtList' = active_streams
    /\ workers' = MarkListed(workers)
    /\ UNCHANGED <<active_streams, threads, reaped, cfgVars>>

NeedsWorkerAlways(cid) == TRUE
NeedsWorkerNever(cid) == FALSE

NeedsWorkerOnRename(cid) ==
    \/ cid \notin active_streams
    \/ workers[DictGet(threads, cid)].name # DictGet(containers, cid)

\* the guard of the loop body: is a collector to be started for cid?
NeedsWorker(cid) == cid \notin active_streams

\* one iteration of "for cid, name in containers.items()"
StartStep ==
    /\ pc = "start"
    /\ todo # << >>
    /\ LET cid == Head(todo)[1]
           name == Head(todo)[2]
           t == Fresh(workers, cid)
       IN IF NeedsWorker(cid)
          THEN /\ threads' = DictSet(threads, cid, t)
               /\ workers' = GC([h \in DOMAIN workers \cup {t} |->
                                    IF h = t THEN NewWorker(cid, name) ELSE workers[h]],
                                threads')
               /\ active_streams' = active_streams \cup {cid}
               /\ started' = started \cup {cid}
               /\ scenario' = ScenarioStarted(scenario)
          ELSE UNCHANGED <<threads, workers, active_streams, started, scenario>>
    /\ todo' = Tail(todo)
    /\ UNCHANGED <<pc, containers, resp, keysAtList, reaped, cfgVars>>

IsDeadAlways(t) == TRUE
IsDeadNever(t) == FALSE

IsDeadOrUnlisted(t) == ~is_alive(t) \/ workers[t].cid \notin Keys(containers)

\* "if not t.is_alive()": does the sweep put the entry of thread t on its list?
IsDead(t) == ~is_alive(t)

\* dead = [cid for cid, t in threads.items() if not t.is_alive()]
RECURSIVE DeadOf(_)
DeadOf(items) ==
    IF items = << >> THEN << >>
    ELSE IF IsDead(Head(items)[2]) THEN <<Head(items)[1]>> \o DeadOf(Tail(items))
    ELSE DeadOf(Tail(items))

ZeroBytes(w) == w.opened /\ w.lines = << >>

\* The for loop is exhausted and main cleans up the threads that died: the
\* list comprehension and "for cid in dead": discard and pop; then main sleeps.
\* (Each is_alive() reads one thread's flag, which only ever goes from alive
\* to dead, and the rest touches data of main alone: a thread that ends
\* while the sweep runs ends either before its is_alive() or after the sweep.)
Sweep ==
    /\ pc = "start"
    /\ todo = << >>
    /\ LET dead == DeadOf(threads) IN
         /\ active_streams' = active_streams \ Range(dead)
         /\ threads' = PopAll(threads, dead)
         /\ reaped' = {<<cid, ZeroBytes(workers[DictGet(threads, cid)])>> : cid \in Range(dead)}
    /\ workers' = GC(workers, threads')
    /\ started' = {}
    /\ keysAtList' = {}
    /\ pc' = "sleep"
    /\ UNCHANGED <<containers, todo, resp, scenario, cfgVars>>

-----------------------------------------------------------------------------
(* Specifications *)

Configs == { <<"opensearch", "client">>, <<"opensearch", "None">>, <<"local", "None">> }

\* under Spec and SpecWorker the host runs on UTC and the time is one instant
Noon == [y |-> 2024, mo |-> 3, d |-> 7, h |-> 12]
NoBody == [t |-> "null", items |-> << >>, nkeys |-> 0]
\* the SBOM agent is another program: not started
SbomOff == [pc |-> "off", parent_uuid |-> None, containers |-> << >>, i |-> 0,
            trace |-> << >>, polls |-> 0, r |-> "none", slept |-> 0]
Elsewhere == TZ = 0 /\ clock = Noon /\ body = NoBody /\ sbom = SbomOff

\* the module has been imported and main has set up its two collections
Init ==
    /\ \E c \in Configs : AGENT_MODE = c[1] /\ opensearch_client = c[2]
    /\ pc = "list"
    /\ containers = << >>
    /\ todo = << >>
    /\ active_streams = {}
    /\ threads = << >>
    /\ workers = << >>
    /\ resp = "none"
    /\ scenario = [on |-> TRUE, counts |-> << >>]
    /\ started = {}
    /\ keysAtList = {}
    /\ reaped = {}
    /\ Elsewhere

Supervisor == ListStep \/ StartStep \/ Sweep

Next ==
    \/ Supervisor
    \/ \E h \in DOMAIN workers :
         Open(h) \/ ReadLine(h, SupLines, SupRawLines) \/ StreamEnd(h)

Spec == Init /\ [][Next]_vars

\* one worker, started by main for a listed container, followed through its stream
OneWorker ==
    /\ \E c \in Configs : AGENT_MODE = c[1] /\ opensearch_client = c[2]
    /\ \E c \in {<<abc123, web>>, <<def456, db>>} :
         /\ containers = <<c>>
         /\ active_streams = {c[1]}
         /\ threads = << <<c[1], <<c[1], 1>> >> >>
         /\ workers = [h \in {<<c[1], 1>>} |-> NewWorker(c[1], c[2])]
         /\ started = {c[1]}
    /\ pc = "start"
    /\ todo = << >>
    /\ resp = "json"
    /\ scenario = Off
    /\ keysAtList = {}
    /\ reaped = {}

InitWorker == OneWorker /\ Elsewhere

NextWorker ==
    \E h \in DOMAIN workers : Open(h) \/ ReadLine(h, MaxLines, RawLines) \/ StreamEnd(h)

SpecWorker == InitWorker /\ [][NextWorker]_vars

\* One worker whose lines are around the length at which send_log cuts a
\* message for printing
LongLine(n) == [i \in 1..n |-> "a"]
SinkRawLines == { LongLine(n) : n \in {1, TruncateAt - 1, TruncateAt, TruncateAt + 1, TruncateAt + 10} }

NextSink ==
    \E h \in DOMAIN workers : Open(h) \/ ReadLine(h, SinkLines, SinkRawLines) \/ StreamEnd(h)

SpecSink == InitWorker /\ [][NextSink]_vars

\* One worker on a host at some offset from UTC, writing at some hour of a
\* day in the middle of a month, at the end of a month or at the end of a year
Offsets == {0 - 8, 0, 2, 9}
Clocks ==
    { [y |-> dt[1], mo |-> dt[2], d |-> dt[3], h |-> h] :
        dt \in { <<2024, 3, 7>>, <<2024, 2, 29>>, <<2024, 12, 31>>, <<2025, 1, 1>> },
        h \in {0, 12, 23} }

InitIndex ==
    /\ OneWorker
    /\ TZ \in Offsets
    /\ clock \in Clocks
    /\ body = NoBody
    /\ sbom = SbomOff

NextIndex ==
    \E h \in DOMAIN workers : Open(h) \/ ReadLine(h, SupLines, SupRawLines) \/ StreamEnd(h)

SpecIndex == InitIndex /\ [][NextIndex]_vars

\* One call of list_containers on a body with container objects of every
\* kind the loop tells apart: the id under "Id" or under "ID" or missing or
\* empty, the names missing or empty or one or two, with and without a "/"
api == <<"a", "p", "i">>
abcdef0123456789 ==
    <<"a", "b", "c", "d", "e", "f", "0", "1", "2", "3", "4", "5", "6", "7", "8", "9">>

ListObjs ==
    { Obj({"Id", "Names"}, abc123, None, <<web>>),
      Obj({"Id", "Names"}, def456, None, <<api>>),
      Obj({"Id"}, abcdef0123456789, None, << >>),
      Obj({"Id", "Names"}, abc123, None, << >>),
      Obj({"Names"}, None, None, <<web2>>),
      Obj({"ID", "Names"}, None, abc123, <<web2, api>>),
      Obj({"Id", "ID", "Names"}, << >>, def456, <<db>>) }

InitList ==
    /\ body \in {[t |-> "arr", items |-> a, nkeys |-> 0] : a \in SeqsUpTo(ListObjs, MaxContainers)}
    /\ AGENT_MODE = "local"
    /\ opensearch_client = "None"
    /\ pc = "list"
    /\ containers = << >>
    /\ todo = << >>
    /\ active_streams = {}
    /\ threads = << >>
    /\ workers = << >>
    /\ resp = "none"
    /\ scenario = Off
    /\ started = {}
    /\ keysAtList = {}
    /\ reaped = {}
    /\ TZ = 0
    /\ clock = Noon
    /\ sbom = SbomOff

\* containers = list_containers(), the runtime answering with body
ListBody ==
    /\ pc = "list"
    /\ LET res == list_containers([kind |-> "json", body |-> body]) IN
         /\ resp' = "json"
         /\ IF res.raised
            THEN /\ pc' = "crashed"
                 /\ UNCHANGED containers
            ELSE /\ pc' = "start"
                 /\ containers' = res.out
    /\ UNCHANGED <<todo, active_streams, threads, workers, scenario, started, keysAtList,
                   reaped, cfgVars>>

SpecList == InitList /\ [][ListBody]_vars

-----------------------------------------------------------------------------
(* The SBOM agent: image_builds/dtrack/agent.py *)

MaxScan == 2            \* container objects the runtime lists in one scan cycle

SCAN_INTERVAL_SECONDS == 3600
PollLimit == 10

uuid1 == <<"u", "u", "i", "d">>
token1 == <<"t", "o", "k">>
nginx == <<"n", "g", "i", "n", "x">>
redis7 == <<"r", "e", "d", "i", "s", ":", "7">>

\* raw_name.lstrip("/")
RECURSIVE LStrip(_)
LStrip(name) == IF name # << >> /\ Head(name) = "/" THEN LStrip(Tail(name)) ELSE name

\* container objects of the runtime's list: with names and an image, without
\* an image, without the "Names" key, with an empty "Names" array
ScanObj(ks, names, image) == [keys |-> ks, Names |-> names, Image |-> image]
ScanObjs ==
    { ScanObj({"Names", "Image"}, <<web>>, nginx),
      ScanObj({"Names", "Image"}, <<api>>, redis7),
      ScanObj({"Names"}, <<db>>, None),
      ScanObj({"Image"}, << >>, nginx),
      ScanObj({"Names", "Image"}, << >>, redis7) }

\* what curl and json.loads give discover_containers: a failure, or a list
DiscoverAnswers ==
    {[kind |-> "failed", data |-> << >>]}
    \cup {[kind |-> "json", data |-> d] : d \in SeqsUpTo(ScanObjs, MaxScan)}

\* the loop "for c in data" of discover_containers; [0] of an empty "Names"
\* array raises
RECURSIVE DiscoverLoop(_, _)
DiscoverLoop(data, out) ==
    IF data = << >> THEN [raised |-> FALSE, out |-> out]
    ELSE LET c == Head(data)
             names == IF "Names" \in c.keys THEN c.Names ELSE <<unknown>>
         IN IF names = << >> THEN [raised |-> TRUE, out |-> << >>]
            ELSE LET raw_name == names[1]
                     name == IF Truthy(raw_name) THEN LStrip(raw_name) ELSE unknown
                     image == IF "Image" \in c.keys THEN c.Image ELSE None
                 IN DiscoverLoop(Tail(data), Append(out, [name |-> name, image |-> image]))

\* discover_containers(): [raised |-> an exception leaves it, out |-> the list]
discover_containers(a) ==
    IF a.kind = "failed" THEN [raised |-> FALSE, out |-> << >>]
    ELSE DiscoverLoop(a.data, << >>)

\* what Dependency-Track answers the search and the create of a project
SearchAnswers == {"conn_error", "200_found", "200_empty", "404", "500"}
CreateAnswers == {"conn_error", "201_uuid", "201_no_uuid", "500"}

\* get_or_create_project(): [raised |-> an exception leaves it, value |-> uuid or None]
get_or_create_project(search, create) ==
    IF search = "conn_error" THEN [raised |-> TRUE, value |-> None]
    ELSE IF search = "200_found" THEN [raised |-> FALSE, value |-> uuid1]
    ELSE IF search \notin {"200_empty", "404"} THEN [raised |-> FALSE, value |-> None]
    ELSE IF create = "conn_error" THEN [raised |-> TRUE, value |-> None]
    ELSE IF create # "201_uuid" THEN [raised |-> FALSE, value |-> None]
    ELSE [raised |-> FALSE, value |-> uuid1]

\* what running syft gives: CycloneDX JSON, other output, a non-zero exit
\* (CalledProcessError), or no syft to run (an OSError, which is not caught)
SyftAnswers == {"cyclonedx", "not_json", "exit_nonzero", "os_error"}

\* run_syft(): value |-> the bom (by the name of its image) or None
run_syft(image, syft) ==
    IF syft = "os_error" THEN [raised |-> TRUE, value |-> None]
    ELSE IF syft \in {"exit_nonzero", "not_json"} THEN [raised |-> FALSE, value |-> None]
    ELSE [raised |-> FALSE, value |-> IF ":" \in Range(image) THEN image
                                      ELSE image \o <<":", "l", "a", "t", "e", "s", "t">>]

UploadAnswers == {"conn_error", "200_token", "200_no_token", "200_not_json", "500"}

\* upload_bom(): value |-> the token or None
upload_bom(upload) ==
    IF upload = "conn_error" THEN [raised |-> TRUE, value |-> None]
    ELSE IF upload = "200_token" THEN [raised |-> FALSE, value |-> token1]
    ELSE [raised |-> FALSE, value |-> None]

\* what Dependency-Track answers a request for the processing status
PollAnswers ==
    {"conn_error", "500", "200_not_json", "200_processing", "200_done", "200_absent"}

StillProcessingUnlessDone(r) == r \in {"200_processing", "200_absent"}

\* a poll after which wait_for_bom sleeps and polls again: status 200 and
\* js.get("processing", False) true
StillProcessing(r) == r = "200_processing"

\* a poll in which requests.get or r.json() raises
PollRaises(r) == r \in {"conn_error", "200_not_json"}

\* Python's range(10) is exhausted after n rounds of the loop
Exhausted(n) == n >= PollLimit

NotNever(v) == FALSE

\* Python's "not v" for a string, a dict or None
Not(v) == ~Truthy(v)

\* The stages of the loop body of main_loop for one container with an image,
\* up to upload_bom: trace |-> the stages run with what each returned,
\* then |-> how the loop body goes on
Stages(i, c, search, create, syft, upload) ==
    LET project_uuid == get_or_create_project(search, create)
        bom == run_syft(c.image, syft)
        token == upload_bom(upload)
        St(stage, res) == <<i, stage, IF res.raised THEN "raised"
                                      ELSE IF Truthy(res.value) THEN "ok" ELSE "None">>
    IN IF project_uuid.raised
       THEN [trace |-> <<St("project", project_uuid)>>, then |-> "raise"]
       ELSE IF Not(project_uuid.value)
       THEN [trace |-> <<St("project", project_uuid)>>, then |-> "continue"]
       ELSE IF bom.raised
       THEN [trace |-> <<St("project", project_uuid), St("scan", bom)>>, then |-> "raise"]
       ELSE IF Not(bom.value)
       THEN [trace |-> <<St("project", project_uuid), St("scan", bom)>>, then |-> "continue"]
       ELSE [trace |-> <<St("project", project_uuid), St("scan", bom), St("upload", token)>>,
             then |-> IF token.raised THEN "raise"
                      ELSE IF Truthy(token.value) THEN "wait" ELSE "continue"]

logVars == <<AGENT_MODE, opensearch_client, pc, containers, todo, active_streams, threads,
             workers, resp, scenario, started, keysAtList, reaped, TZ, clock, body>>

\* main_loop up to the while loop
Startup ==
    /\ sbom.pc = "startup"
    /\ \E search \in SearchAnswers, create \in CreateAnswers :
         LET parent_uuid == get_or_create_project(search, create) IN
         sbom' = [sbom EXCEPT !.parent_uuid = parent_uuid.value,
                              !.pc = IF parent_uuid.raised THEN "crashed"
                                     ELSE IF Not(parent_uuid.value) THEN "returned"
                                     ELSE "discover"]
    /\ UNCHANGED logVars

\* the head of the while loop, after the start or when the sleep is over:
\* discover_containers(), and the sleep of a cycle without containers
Discover ==
    /\ sbom.pc \in {"discover", "sleep"}
    /\ \E a \in DiscoverAnswers :
         LET res == discover_containers(a) IN
         sbom' = [sbom EXCEPT !.containers = res.out,
                              !.i = 1,
                              !.trace = << >>,
                              !.polls = 0,
                              !.r = "none",
                              !.slept = IF ~res.raised /\ res.out = << >>
                                        THEN SCAN_INTERVAL_SECONDS ELSE 0,
                              !.pc = IF res.raised THEN "crashed"
                                     ELSE IF res.out = << >> THEN "sleep"
                                     ELSE "for"]
    /\ UNCHANGED logVars

\* one round of "for c in containers" up to the call of wait_for_bom
ScanContainer ==
    /\ sbom.pc = "for"
    /\ sbom.i <= Len(sbom.containers)
    /\ LET c == sbom.containers[sbom.i] IN
       IF Not(c.image)
       THEN sbom' = [sbom EXCEPT !.i = @ + 1]
       ELSE \E search \in SearchAnswers, create \in CreateAnswers,
               syft \in SyftAnswers, upload \in UploadAnswers :
              LET res == Stages(sbom.i, c, search, create, syft, upload) IN
              sbom' = [sbom EXCEPT !.trace = @ \o res.trace,
                                   !.polls = 0,
                                   !.r = "none",
                                   !.i = IF res.then = "continue" THEN @ + 1 ELSE @,
                                   !.pc = IF res.then = "raise" THEN "crashed"
                                          ELSE IF res.then = "wait" THEN "wait"
                                          ELSE "for"]
    /\ UNCHANGED logVars

\* one round of the loop of wait_for_bom: the request, and what follows it:
\* a return, an exception, or the sleep of 5 seconds, after which the loop
\* goes on or is exhausted
Poll ==
    /\ sbom.pc = "wait"
    /\ ~Exhausted(sbom.polls)
    /\ \E r \in PollAnswers :
         LET n == sbom.polls + 1
             returns == ~PollRaises(r) /\ (~StillProcessing(r) \/ Exhausted(n))
         IN sbom' = [sbom EXCEPT !.polls = n,
                                 !.r = r,
                                 !.trace = IF returns THEN Append(@, <<sbom.i, "poll", "ok">>)
                                           ELSE IF PollRaises(r)
                                           THEN Append(@, <<sbom.i, "poll", "raised">>)
                                           ELSE @,
                                 !.i = IF returns THEN @ + 1 ELSE @,
                                 !.pc = IF PollRaises(r) THEN "crashed"
                                        ELSE IF returns THEN "for" ELSE "wait"]
    /\ UNCHANGED logVars

\* the for loop is exhausted: "Scan cycle done", and the sleep
CycleDone ==
    /\ sbom.pc = "for"
    /\ sbom.i > Len(sbom.containers)
    /\ sbom' = [sbom EXCEPT !.pc = "sleep", !.slept = SCAN_INTERVAL_SECONDS]
    /\ UNCHANGED logVars

InitSbom ==
    /\ sbom = [SbomOff EXCEPT !.pc = "startup"]
    /\ AGENT_MODE = "local"
    /\ opensearch_client = "None"
    /\ pc = "list"
    /\ containers = << >>
    /\ todo = << >>
    /\ active_streams = {}
    /\ threads = << >>
    /\ workers = << >>
    /\ resp = "none"
    /\ scenario = Off
    /\ started = {}
    /\ keysAtList = {}
    /\ reaped = {}
    /\ TZ = 0
    /\ clock = Noon
    /\ body = NoBody

NextSbom == Startup \/ Discover \/ ScanContainer \/ Poll \/ CycleDone

SpecSbom == InitSbom /\ [][NextSbom]_vars

-----------------------------------------------------------------------------
(* Properties of the discovery loop *)

Live == {h \in DOMAIN workers : workers[h].st # "Ended"}
LiveFor(cid) == {h \in Live : workers[h].cid = cid}
Cids == {abc123, def456}
LoopDone == pc = "start" /\ todo = << >>

\* C1: for every container id at most one stream_logs thread has not ended,
\* and threads holds at most one handle for it, which active_streams mirrors
AtMostOneWorkerPerId ==
    /\ \A cid \in Cids : Cardinality(LiveFor(cid)) <= 1
    /\ \A i, j \in 1..Len(threads) : threads[i][1] = threads[j][1] => i = j
    /\ Cardinality(active_streams) = Len(threads)

\* both containers are followed by a live worker while main polls again
WitnessTwoLiveWorkers ==
    /\ LoopDone
    /\ keysAtList = Cids
    /\ Cardinality(Live) = 2
    /\ Keys(containers) = Cids

\* C2: the for loop starts a worker exactly for the listed ids that were no
\* key when the cycle began (one each, as every started worker is recorded
\* under its id), a live worker's id is always a key, and in the run
\* "poll 1 lists abc123, poll 2 lists abc123 and def456, no stream ends"
\* one worker is started in each cycle and two are live after the second
OneWorkerPerNewId ==
    /\ pc = "start" =>
         /\ started = (Keys(containers) \ Keys(todo)) \ keysAtList
         /\ \A cid \in started : Cardinality({h \in DOMAIN workers : workers[h].cid = cid}) = 1
         /\ active_streams = keysAtList \cup started
    /\ \A h \in Live : workers[h].cid \in active_streams /\ h \in Handles(threads)
    /\ ( /\ scenario.on
         /\ Len(scenario.counts) = 2
         /\ (LoopDone \/ pc = "sleep") )
       => (scenario.counts = <<1, 1>> /\ Cardinality(Live) = 2)
    /\ ( /\ scenario.on
         /\ Len(scenario.counts) = 1
         /\ (LoopDone \/ pc = "sleep") )
       => (scenario.counts = <<1>> /\ Cardinality(Live) = 1)

\* the run of the scenario has completed its second cycle
WitnessScenario ==
    /\ scenario.on
    /\ Len(scenario.counts) = 2
    /\ pc = "sleep"
    /\ \E h \in Live : Len(workers[h].lines) > 0

\* C3: an id leaves active_streams (and threads) only in the sweep of main and
\* only if its thread has ended; an id enters only in the for loop of main
\* and only if list_containers returned it and it was not in the set
RemovedOnlyWhenEnded ==
    [][ /\ \A cid \in active_streams \ active_streams' :
             /\ pc = "start" /\ pc' = "sleep"
             /\ workers[DictGet(threads, cid)].st = "Ended"
        /\ \A cid \in Keys(threads) \ Keys(threads') :
             /\ pc = "start" /\ pc' = "sleep"
             /\ workers[DictGet(threads, cid)].st = "Ended"
        /\ \A cid \in active_streams' \ active_streams :
             /\ pc = "start" /\ pc' = "start"
             /\ cid \in Keys(containers)
             /\ todo # << >> /\ Head(todo)[1] = cid
        /\ \A cid \in Keys(threads) \cap Keys(threads') :
             DictGet(threads', cid) = DictGet(threads, cid)
      ]_vars

\* the sweep has just removed the entry of an ended worker and kept that of a live one
WitnessSweepRemoved ==
    /\ pc = "sleep"
    /\ reaped # {}
    /\ Live # {}
    /\ Len(threads) = 1

\* C4 as claimed: when the for loop of a cycle is done, no listed id is still
\* registered to a worker that had ended before the cycle's list call
FreshWorkerInNextCycle ==
    LoopDone =>
      \A cid \in Keys(containers) \cap Keys(threads) :
        LET w == workers[DictGet(threads, cid)] IN ~(w.st = "Ended" /\ w.listed)

\* C4 amended: the entry of an ended worker does not survive the sweep of the
\* first cycle that begins after it ended, and the cycle that follows the
\* sweep which removed an entry starts a worker for the id if it is listed
FreshWorkerAfterReap ==
    /\ \A h \in Handles(threads) :
         (workers[h].st = "Ended" /\ workers[h].listed) => pc \in {"start", "crashed"}
    /\ LoopDone =>
         \A r \in reaped :
           r[1] \in Keys(containers) =>
             /\ r[1] \in started
             /\ r[1] \in Keys(threads)
             /\ ~workers[DictGet(threads, r[1])].listed

\* a worker that ended during the sleep was removed one cycle later and the
\* cycle after that has started a fresh worker for the id
WitnessRestarted ==
    /\ LoopDone
    /\ \E r \in reaped : r[1] \in started /\ workers[DictGet(threads, r[1])].st = "Streaming"

\* C5: a worker whose stream opened and closed without a line has forwarded
\* nothing; the sweep removes the entry of every worker that has ended, such
\* a worker's included; and the cycle after the sweep that removed such a
\* worker's entry starts a worker for the id if it is listed
ZeroByteWorkerReplaced ==
    /\ [](\A h \in DOMAIN workers :
            (workers[h].st = "Ended" /\ ZeroBytes(workers[h])) => workers[h].sent = << >>)
    /\ [][(pc = "start" /\ pc' = "sleep") =>
            \A i \in 1..Len(threads) :
              workers[threads[i][2]].st = "Ended" =>
                /\ threads[i][1] \notin active_streams'
                /\ threads[i][1] \notin Keys(threads')
                /\ <<threads[i][1], ZeroBytes(workers[threads[i][2]])>> \in reaped']_vars
    /\ [](LoopDone =>
            \A r \in reaped :
              (r[2] /\ r[1] \in Keys(containers)) =>
                /\ r[1] \in started
                /\ Cardinality({h \in DOMAIN workers : workers[h].cid = r[1]}) = 1)

\* the entry of a zero-byte worker was removed and its id has a fresh worker
WitnessZeroByteReplaced ==
    /\ LoopDone
    /\ \E r \in reaped : r[2] /\ r[1] \in started

\* C6: when the list call fails (connection, HTTP status, or a body that is
\* not JSON) list_containers returns {} and main does not crash; the cycle
\* starts no worker, removes no entry of a live worker, and goes on to sleep
FailedListIsEmptyCycle ==
    /\ [](resp \in FailureKinds =>
            /\ pc \in {"start", "sleep"}
            /\ containers = << >>
            /\ todo = << >>
            /\ started = {}
            /\ (pc = "start" => ENABLED Sweep))
    /\ [][(resp' \in FailureKinds /\ (resp' # resp \/ pc' # pc)) =>
            /\ DOMAIN workers' \subseteq DOMAIN workers
            /\ Live \subseteq Handles(threads')
            /\ active_streams' \subseteq active_streams
            /\ (pc = "start" => pc' = "sleep")]_vars

\* a cycle whose list call failed is over: main sleeps, the live worker was
\* kept and the entry of an ended one was removed
WitnessFailedCycle ==
    /\ resp \in FailureKinds
    /\ pc = "sleep"
    /\ Live # {}
    /\ reaped # {}

\* C7 as claimed: main never stops, whatever the runtime, the streams and
\* the sink do
MainNeverStops == pc # "crashed"

-----------------------------------------------------------------------------
(* Properties of the stream workers *)

FailedEffects == {"print_failed", "index_failed", "no_client"}
Last(q) == q[Len(q)]

\* C8 as claimed: a worker that hands a record to send_log which fails to
\* deliver it is still streaming afterwards, in either mode
SinkFailureKeepsWorker ==
    [][\A h \in DOMAIN workers \cap DOMAIN workers' :
         ( /\ Len(workers'[h].sent) = Len(workers[h].sent) + 1
           /\ Last(workers'[h].sent).effect \in FailedEffects )
         => workers'[h].st = "Streaming"]_vars

\* C9: a worker goes Starting -> Streaming -> Ended or Starting -> Ended and
\* makes no other change of state; it leaves Starting for Streaming only
\* with its stream open and for Ended only on a failed open, with nothing
\* sent and main where it was; once Ended it sends nothing, reads nothing and
\* stays Ended until its Thread object is dropped; a new Thread is Starting
WorkerLifeCycle ==
    [][ /\ \A h \in DOMAIN workers \cap DOMAIN workers' :
             LET w == workers[h]
                 v == workers'[h]
             IN /\ <<w.st, v.st>> \in { <<"Starting", "Starting">>, <<"Starting", "Streaming">>,
                                        <<"Starting", "Ended">>, <<"Streaming", "Streaming">>,
                                        <<"Streaming", "Ended">>, <<"Ended", "Ended">> }
                /\ w.st = "Starting" =>
                     /\ w.sent = << >> /\ v.sent = << >> /\ v.lines = << >>
                     /\ v.st = "Streaming" => v.opened
                     /\ v.st = "Ended" => (~v.opened /\ pc' = pc)
                /\ (w.st = "Streaming" /\ v.st = "Ended") => pc' = pc
                /\ w.st = "Ended" => (v.sent = w.sent /\ v.lines = w.lines /\ v.opened = w.opened)
        /\ \A h \in DOMAIN workers \ DOMAIN workers' : workers[h].st = "Ended"
        /\ \A h \in DOMAIN workers' \ DOMAIN workers :
             workers'[h].st = "Starting" /\ workers'[h].sent = << >>
      ]_vars

\* main sleeps; one worker has ended on a failed open, another after a line
WitnessBothEndings ==
    /\ pc = "sleep"
    /\ \E h \in DOMAIN workers : workers[h].st = "Ended" /\ ~workers[h].opened
    /\ \E h \in DOMAIN workers : workers[h].st = "Ended" /\ workers[h].lines # << >>

NonEmpty(lines) == SelectSeq(lines, LAMBDA l : l # << >>)

\* C10: the records a worker has handed to send_log are, in order, one for
\* each non-empty line it has read: same length, invalid bytes replaced, the
\* other bytes kept, tagged with the id and name the worker was started with
RecordsFollowLines ==
    \A h \in DOMAIN workers :
      LET w == workers[h]
          ne == NonEmpty(w.lines)
      IN /\ Len(w.sent) = Len(ne)
         /\ \A i \in 1..Len(w.sent) :
              LET d == w.sent[i].doc IN
              /\ d.container_id = w.cid
              /\ d.container_name = w.name
              /\ w.cid = h[1]
              /\ w.name = DictGet(containers, w.cid)
              /\ Len(d.message) = Len(ne[i])
              /\ \A k \in 1..Len(ne[i]) :
                   /\ ne[i][k] # InvalidByte => d.message[k] = ne[i][k]
                   /\ ne[i][k] = InvalidByte => d.message[k] = Replacement

\* a worker has read an empty line, a line with an invalid byte and a valid line
WitnessAllKindsOfLines ==
    \E h \in DOMAIN workers :
      /\ workers[h].lines = << <<"h", InvalidByte>>, << >>, <<"h", "i">> >>
      /\ Len(workers[h].sent) = 2
      /\ workers[h].sent[1].doc.message = <<"h", Replacement>>

-----------------------------------------------------------------------------
(* Properties of the discovery loop: renamed and unlisted containers *)

\* the loop body of main runs for an id that has a live worker started under
\* another name than the one listed now
RenamedIteration ==
    /\ pc = "start"
    /\ todo # << >>
    /\ todo' = Tail(todo)
    /\ \E h \in LiveFor(Head(todo)[1]) : workers[h].name # Head(todo)[2]

\* C15: when an id is listed under another name than the one its live worker
\* was started with, the loop body starts no worker and leaves threads,
\* active_streams and the workers as they are; a worker's name never changes,
\* and every record it hands to send_log carries that name
RenameChangesNothing ==
    /\ [](\A h \in DOMAIN workers :
            \A i \in 1..Len(workers[h].sent) :
               /\ workers[h].sent[i].doc.container_name = workers[h].name
               /\ workers[h].sent[i].out.container_name = workers[h].name
               /\ workers[h].sent[i].doc.container_id = workers[h].cid)
    /\ [][RenamedIteration =>
            /\ workers' = workers
            /\ threads' = threads
            /\ active_streams' = active_streams]_vars
    /\ [][\A h \in Live : h \in DOMAIN workers' =>
            /\ workers'[h].name = workers[h].name
            /\ workers'[h].cid = workers[h].cid]_vars

\* the loop is done for a list that names abc123 "/web2"; the worker started
\* for abc123 as "/web" is alive and has sent a record
WitnessRenamedWhileAlive ==
    /\ LoopDone
    /\ abc123 \in Keys(containers)
    /\ DictGet(containers, abc123) = web2
    /\ \E h \in LiveFor(abc123) :
         /\ workers[h].name = web
         /\ Len(workers[h].sent) = 1
         /\ workers[h].sent[1].doc.container_name = web
         /\ DictGet(threads, abc123) = h

\* a step of main: one that changes what main alone writes
MainStep == supVars' # supVars

\* C16: main never ends a worker: a live worker is the thread that threads
\* holds for its id, whose id is in active_streams, whether the last list
\* named the id or not; and no step of main, with the id listed or omitted,
\* ends a live worker or changes its entry or what it has read and sent
NeverCancels ==
    /\ [](\A h \in Live :
            /\ workers[h].cid \in active_streams
            /\ workers[h].cid \in Keys(threads)
            /\ DictGet(threads, workers[h].cid) = h)
    /\ [][MainStep =>
            \A h \in Live :
              /\ h \in DOMAIN workers'
              /\ workers'[h].st = workers[h].st
              /\ workers'[h].lines = workers[h].lines
              /\ workers'[h].sent = workers[h].sent
              /\ workers[h].cid \in active_streams'
              /\ workers[h].cid \in Keys(threads')
              /\ DictGet(threads', workers[h].cid) = h]_vars

\* main sleeps after a cycle whose list named no abc123, and the worker
\* started for abc123 in an earlier cycle is still streaming under its entry
WitnessUnlistedStillRuns ==
    /\ pc = "sleep"
    /\ resp = "json"
    /\ abc123 \notin Keys(containers)
    /\ abc123 \in active_streams
    /\ \E h \in LiveFor(abc123) :
         /\ workers[h].st = "Streaming"
         /\ DictGet(threads, abc123) = h

\* a step of a worker: a thread that exists moves on or reads a line
WorkerStep ==
    \E h \in DOMAIN workers \cap DOMAIN workers' :
       \/ workers'[h].st # workers[h].st
       \/ workers'[h].lines # workers[h].lines

\* C17: active_streams is the key set of threads whenever main is between two
\* statements of its loop, so at the start of every iteration and after every
\* sweep; a step of a worker changes neither, and both change only while main
\* is in its for loop or its sweep
BookkeepingAgrees ==
    /\ [](active_streams = Keys(threads))
    /\ [](Len(threads) = Cardinality(Keys(threads)))
    /\ [][WorkerStep => UNCHANGED <<active_streams, threads>>]_vars
    /\ [][(active_streams' # active_streams \/ threads' # threads) =>
             (pc = "start" /\ MainStep)]_vars

\* main sleeps after a sweep that removed one entry and kept another
WitnessSweptOneKeptOne ==
    /\ pc = "sleep"
    /\ reaped # {}
    /\ active_streams # {}
    /\ active_streams = Keys(threads)
    /\ \A c \in reaped : c[1] \notin active_streams

-----------------------------------------------------------------------------
(* Properties of the sink *)

RECURSIVE SumCalls(_)
SumCalls(sent) == IF sent = << >> THEN 0 ELSE Head(sent).calls + SumCalls(Tail(sent))

Dropped == {"index_failed", "no_client"}

\* C11: in indexing mode every record handed to send_log makes at most one
\* call of the backend's index, none without a client; a record whose write
\* failed or that found no client is not written again (the calls never
\* outnumber the records, one record per non-empty line), and the worker that
\* handed it over goes on streaming, so the lines that follow are attempted
OneWritePerRecord ==
    /\ [](AGENT_MODE = "opensearch" =>
            \A h \in DOMAIN workers :
              LET w == workers[h] IN
              /\ Len(w.sent) = Len(NonEmpty(w.lines))
              /\ SumCalls(w.sent) <= Len(w.sent)
              /\ \A i \in 1..Len(w.sent) :
                   /\ w.sent[i].calls <= 1
                   /\ w.sent[i].effect \in Dropped \cup {"indexed"}
                   /\ w.sent[i].effect = "no_client" <=> opensearch_client = "None"
                   /\ opensearch_client = "None" => w.sent[i].calls = 0
                   /\ w.sent[i].out = w.sent[i].doc)
    /\ [][AGENT_MODE = "opensearch" =>
            \A h \in DOMAIN workers :
              (h \in DOMAIN workers' /\ workers'[h].sent # workers[h].sent)
                 => /\ workers'[h].st = "Streaming"
                    /\ Len(workers'[h].sent) = Len(workers[h].sent) + 1]_vars

\* a worker's first write failed and its second one went through
WitnessFailedThenIndexed ==
    /\ AGENT_MODE = "opensearch"
    /\ \E h \in DOMAIN workers :
         /\ Len(workers[h].sent) = 2
         /\ workers[h].sent[1].effect = "index_failed"
         /\ workers[h].sent[1].calls = 1
         /\ workers[h].sent[2].effect = "indexed"
         /\ workers[h].st = "Streaming"

\* the records send_log has printed
Printed == { r \in UNION { Range(workers[h].sent) : h \in DOMAIN workers } : r.effect = "printed" }

\* C12: in local mode send_log prints a message of more than 300 characters
\* as its first 300 characters followed by "...[truncated]", and a message of
\* at most 300 characters as it is (310 times "a" gives 300 times "a" and the
\* marker); every other field of the record is printed as it is
DebugSinkTruncates ==
    \A r \in Printed :
      LET m == r.doc.message
          o == r.out.message
          marker == <<".", ".", ".", "[", "t", "r", "u", "n", "c", "a", "t", "e", "d", "]">>
      IN /\ Len(m) > 300 =>
              /\ Len(o) = 300 + 14
              /\ \A k \in 1..300 : o[k] = m[k]
              /\ \A k \in 1..14 : o[300 + k] = marker[k]
         /\ Len(m) <= 300 => o = m
         /\ m = [i \in 1..310 |-> "a"] => o = [i \in 1..300 |-> "a"] \o marker
         /\ DOMAIN r.out = DOMAIN r.doc
         /\ \A f \in DOMAIN r.doc \ {"message"} : r.out[f] = r.doc[f]

\* a worker has printed a message of exactly 300 characters and one of 310
WitnessCutAndUncut ==
    \E h \in DOMAIN workers :
      /\ AGENT_MODE = "local"
      /\ Len(workers[h].sent) = 2
      /\ workers[h].sent[1].effect = "printed"
      /\ workers[h].sent[2].effect = "printed"
      /\ Len(workers[h].sent[1].doc.message) = 300
      /\ Len(workers[h].sent[1].out.message) = 300
      /\ Len(workers[h].sent[2].doc.message) = 310
      /\ Len(workers[h].sent[2].out.message) = 314

\* the index names send_log has passed to opensearch_client.index
IndexNames ==
    { r.index : r \in { r \in UNION { Range(workers[h].sent) : h \in DOMAIN workers } :
                          r.effect \in {"indexed", "index_failed"} } }

\* C13: the index a record is written to is the prefix, "-" and the UTC date
\* of the write as YYYY.MM.DD, whatever the host's offset from UTC: a write on
\* 2024-03-07 UTC with the prefix "podman-logs" goes to "podman-logs-2024.03.07"
IndexNameIsUtcDate ==
    \A n \in IndexNames :
      /\ n = OPENSEARCH_INDEX_PREFIX \o <<"-">> \o FormatDate(gmtime(clock))
      /\ (clock.y = 2024 /\ clock.mo = 3 /\ clock.d = 7) =>
            n = <<"p", "o", "d", "m", "a", "n", "-", "l", "o", "g", "s", "-",
                  "2", "0", "2", "4", ".", "0", "3", ".", "0", "7">>

-----------------------------------------------------------------------------
(* Properties of list_containers *)

\* the id of a container object: "Id", or "ID" when "Id" is missing or empty
IdOf(c) == IF "Id" \in c.keys /\ c.Id # << >> THEN c.Id
           ELSE IF "ID" \in c.keys THEN c.ID ELSE << >>

\* a name without its leading path separator
Stripped(name) == IF name # << >> /\ name[1] = "/" THEN Tail(name) ELSE name

\* C14: list_containers has an entry exactly for the ids of the objects that
\* have one; its name is the first of the object's names without the leading
\* "/" ("/web" is listed as "web"), or the first 12 characters of the id when
\* the object has no names (of the last object, when several carry the id)
ListedNamesStripped ==
    (pc = "start" /\ body.t = "arr") =>
       LET items == body.items
           WithId == { i \in 1..Len(items) : IdOf(items[i]) # << >> }
       IN /\ Keys(containers) = { IdOf(items[i]) : i \in WithId }
          /\ Len(containers) = Cardinality(Keys(containers))
          /\ \A cid \in Keys(containers) :
               LET last == CHOOSE i \in WithId :
                              /\ IdOf(items[i]) = cid
                              /\ \A j \in WithId : IdOf(items[j]) = cid => j <= i
                   c == items[last]
                   name == DictGet(containers, cid)
               IN /\ ("Names" \in c.keys /\ c.Names # << >>) => name = Stripped(c.Names[1])
                  /\ ~("Names" \in c.keys /\ c.Names # << >>) => name = Prefix(cid, 12)
                  /\ c.Names = << <<"/", "w", "e", "b">> >> => name = <<"w", "e", "b">>

-----------------------------------------------------------------------------
(* Properties of the SBOM agent *)

\* the stages run in the present cycle for the i-th container
StagesFor(i) == SelectSeq(sbom.trace, LAMBDA e : e[1] = i)

StageOrder == <<"project", "scan", "upload", "poll">>

\* the loop is at or past the i-th container's stages and has not raised in them
Processed(i) ==
    LET t == StagesFor(i) IN
    /\ t # << >>
    /\ \/ t[Len(t)][3] = "None" /\ t[Len(t)][2] # "poll"
       \/ t[Len(t)] = <<i, "poll", "ok">>

\* C18: the stages run for a container are, in this order, project, scan,
\* upload and poll, each only after the one before returned a value, none
\* for a container without an image; a cycle in which no stage raised ends
\* in the sleep of SCAN_INTERVAL_SECONDS with every container that has an
\* image processed up to its first None or through the poll, so a None of
\* one container costs no other container its stages; the loop is left only
\* into that sleep or by an exception of a stage; and main_loop returns from
\* the start, before any discovery, when the parent project is None
ScanCycleInOrder ==
    /\ [](\A i \in 1..Len(sbom.containers) :
            LET t == StagesFor(i) IN
            /\ Len(t) <= Len(StageOrder)
            /\ \A k \in 1..Len(t) :
                 /\ t[k][2] = StageOrder[k]
                 /\ k < Len(t) => t[k][3] = "ok"
            /\ Not(sbom.containers[i].image) => t = << >>
            /\ i > sbom.i => t = << >>)
    /\ [](\A k \in 1..Len(sbom.trace) :
            /\ sbom.trace[k][1] \in 1..Len(sbom.containers)
            /\ k > 1 => sbom.trace[k - 1][1] <= sbom.trace[k][1])
    /\ [](sbom.pc = "sleep" =>
            /\ sbom.slept = 3600
            /\ \A i \in 1..Len(sbom.containers) :
                 Truthy(sbom.containers[i].image) => Processed(i))
    /\ [][(sbom.pc \in {"for", "wait"} /\ sbom'.pc \notin {"for", "wait"}) =>
            \/ sbom'.pc = "sleep" /\ sbom.i > Len(sbom.containers)
            \/ /\ sbom'.pc = "crashed"
               /\ sbom'.trace # << >>
               /\ sbom'.trace[Len(sbom'.trace)][3] = "raised"]_vars
    /\ [][(sbom.pc = "for" /\ sbom'.trace # sbom.trace
             /\ sbom'.trace[Len(sbom'.trace)][3] = "None") =>
            /\ sbom'.pc = "for"
            /\ sbom'.i = sbom.i + 1]_vars
    /\ [](sbom.pc = "returned" =>
            /\ sbom.parent_uuid = None
            /\ sbom.containers = << >>
            /\ sbom.trace = << >>
            /\ sbom.slept = 0)
    /\ [](sbom.pc \in {"discover", "for", "wait", "sleep"} => Truthy(sbom.parent_uuid))
    /\ [][sbom.pc = "returned" => sbom' = sbom]_vars

\* a cycle of two containers has ended in the sleep: the scan of the first
\* returned None, the second went through all four stages
WitnessSkippedOneScannedOther ==
    /\ sbom.pc = "sleep"
    /\ Len(sbom.containers) = 2
    /\ sbom.trace = << <<1, "project", "ok">>, <<1, "scan", "None">>,
                       <<2, "project", "ok">>, <<2, "scan", "ok">>,
                       <<2, "upload", "ok">>, <<2, "poll", "ok">> >>

\* C19: wait_for_bom makes at most 10 requests, one in each step, and a
\* request is always possible while it waits; it returns on the first answer
\* whose status is not 200 or that has processing false or absent, goes on
\* after an answer with processing true, and returns after the 10th of them
WaitForBomBounded ==
    /\ [](sbom.polls <= 10)
    /\ [](sbom.pc = "wait" =>
            /\ sbom.polls < 10
            /\ sbom.polls > 0 => sbom.r = "200_processing"
            /\ ENABLED Poll)
    /\ [][sbom.pc = "wait" =>
            /\ sbom'.polls = sbom.polls + 1
            /\ sbom'.r \in {"500", "200_done", "200_absent"} => sbom'.pc = "for"
            /\ (sbom'.r = "200_processing" /\ sbom'.polls < 10) => sbom'.pc = "wait"
            /\ (sbom'.r = "200_processing" /\ sbom'.polls = 10) => sbom'.pc = "for"
            /\ sbom'.pc = "for" => sbom'.i = sbom.i + 1]_vars

\* wait_for_bom has given up after its 10th request
WitnessGaveUp ==
    /\ sbom.polls = 10
    /\ sbom.r = "200_processing"
    /\ sbom.pc = "for"
    /\ sbom.trace[Len(sbom.trace)] = <<sbom.i - 1, "poll", "ok">>

====
